---------------------------- MODULE Spec2Model ----------------------------
(***************************************************************************)
(* Model of src/analyze_logs.py: the log classification pipeline          *)
(*   raw lines -> parse_log_line -> analyze_logs -> print_analysis.       *)
(*                                                                         *)
(* Text is a TLA+ string; the character at position i of s is             *)
(* SubSeq(s, i, i).  A line of the input is any string over the           *)
(* characters used in Lines below.                                         *)
(***************************************************************************)
EXTENDS Integers, Sequences, FiniteSets, TLC

(***************************************************************************)
(* Python str primitives                                                   *)
(***************************************************************************)

\* the character s[i] (1-based), or "" when i is outside the string
CharAt(s, i) == IF 1 <= i /\ i <= Len(s) THEN SubSeq(s, i, i) ELSE ""

\* s[i:] (1-based, i may be Len(s)+1)
Tail_(s, i) == SubSeq(s, i, Len(s))

\* characters Python's str.strip() and the regex class \s treat as whitespace
\* (the ASCII ones that occur in the inputs of this model)
Whitespace == {" ", "\t", "\n", "\r"}

LowerMap ==
  [A |-> "a", B |-> "b", C |-> "c", D |-> "d", E |-> "e", F |-> "f", G |-> "g",
   H |-> "h", I |-> "i", J |-> "j", K |-> "k", L |-> "l", M |-> "m", N |-> "n",
   O |-> "o", P |-> "p", Q |-> "q", R |-> "r", S |-> "s", T |-> "t", U |-> "u",
   V |-> "v", W |-> "w", X |-> "x", Y |-> "y", Z |-> "z"]

LowerChar(c) == IF c \in DOMAIN LowerMap THEN LowerMap[c] ELSE c

\* str.lower(), by halves
RECURSIVE Lower(_)
Lower(s) ==
  IF Len(s) <= 1 THEN LowerChar(s)
  ELSE LET h == Len(s) \div 2
       IN  Lower(SubSeq(s, 1, h)) \o Lower(SubSeq(s, h + 1, Len(s)))

\* the Python expression  t in s
Contains(s, t) ==
  \E i \in 1..(Len(s) - Len(t) + 1) : SubSeq(s, i, i + Len(t) - 1) = t

\* str.startswith
StartsWith(s, t) == Len(s) >= Len(t) /\ SubSeq(s, 1, Len(t)) = t

\* length of the maximal run of whitespace starting at position i
RECURSIVE WsRun(_, _)
WsRun(s, i) ==
  IF i <= Len(s) /\ CharAt(s, i) \in Whitespace THEN 1 + WsRun(s, i + 1) ELSE 0

\* length of the maximal run of non-whitespace starting at position i
RECURSIVE NonWsRun(_, _)
NonWsRun(s, i) ==
  IF i <= Len(s) /\ CharAt(s, i) \notin Whitespace THEN 1 + NonWsRun(s, i + 1) ELSE 0

\* length of the maximal run of whitespace ending at position i
RECURSIVE WsRunBack(_, _)
WsRunBack(s, i) ==
  IF i >= 1 /\ CharAt(s, i) \in Whitespace THEN 1 + WsRunBack(s, i - 1) ELSE 0

\* str.strip()
Strip(s) ==
  LET a == WsRun(s, 1)
  IN  IF a = Len(s) THEN "" ELSE SubSeq(s, a + 1, Len(s) - WsRunBack(s, Len(s)))

(***************************************************************************)
(* re.match(r'^(\S+)\s+\|\s+(.+)$', line)                                  *)
(***************************************************************************)

\* does  .+$  match the whole of u: at least one character, no newline
\* except one final newline that $ steps over
DotPlusEnd(u) ==
  /\ Len(u) >= 1
  /\ CharAt(u, 1) # "\n"
  /\ \A i \in 1..Len(u) : CharAt(u, i) = "\n" => i = Len(u)

\* group(2) for a tail u matched by .+$
DotPlusGroup(u) ==
  IF CharAt(u, Len(u)) = "\n" THEN SubSeq(u, 1, Len(u) - 1) ELSE u

NoMatch == [matched |-> FALSE, service |-> "", log_content |-> ""]

\* \s+(.+)$ on the text after '|': \s+ is greedy and backtracks, so it takes
\* the longest run of whitespace (of the w2 available from position from)
\* that leaves .+$ a match
MatchPayload(line, service, from, w2) ==
  IF \E k \in 1..w2 : DotPlusEnd(Tail_(line, from + k))
  THEN [matched |-> TRUE, service |-> service,
        log_content |-> DotPlusGroup(Tail_(line,
           from + (CHOOSE k \in 1..w2 :
                     /\ DotPlusEnd(Tail_(line, from + k))
                     /\ \A y \in (k + 1)..w2 : ~DotPlusEnd(Tail_(line, from + y)))))]
  ELSE NoMatch

\* \s+\| after the token: the whole run of whitespace, then '|' at position bar
MatchBar(line, n, bar) ==
  IF bar > n + 1 /\ CharAt(line, bar) = "|"
  THEN MatchPayload(line, SubSeq(line, 1, n), bar + 1, WsRun(line, bar + 1))
  ELSE NoMatch

\* ^(\S+): group 1 is the whole leading run of n non-whitespace characters
MatchToken(line, n) ==
  IF n >= 1 THEN MatchBar(line, n, n + WsRun(line, n + 1) + 1) ELSE NoMatch

ReMatch(line) == MatchToken(line, NonWsRun(line, 1))

(***************************************************************************)
(* json.loads on the payload.                                              *)
(*                                                                         *)
(* A decoded value keeps what the program can observe of it: its Python    *)
(* type, the text of a str, the value of an int or bool, and the length of *)
(* a list or nested dict (the program only ever tests those for truth).    *)
(* The decoder covers objects, arrays, strings with the escapes            *)
(* \" \\ \/ \n \t \r, integers and true/false/null; fractions, exponents,  *)
(* \b \f \uXXXX and NaN/Infinity do not occur in the inputs of this model. *)
(***************************************************************************)

PyStr(x)  == [t |-> "str",  s |-> x,  n |-> 0]
PyInt(k)  == [t |-> "int",  s |-> "", n |-> k]
PyBool(b) == [t |-> "bool", s |-> "", n |-> IF b THEN 1 ELSE 0]
PyList(k) == [t |-> "list", s |-> "", n |-> k]
PyDict(k) == [t |-> "dict", s |-> "", n |-> k]
None      == [t |-> "None", s |-> "", n |-> 0]

\* Python truth value of a decoded value (the operand of `or`)
Truthy(v) ==
  CASE v.t = "str"  -> v.s # ""
    [] v.t = "None" -> FALSE
    [] OTHER        -> v.n # 0

JsonWs == {" ", "\t", "\n", "\r"}
Digits == {"0", "1", "2", "3", "4", "5", "6", "7", "8", "9"}
DigitVal == [d \in Digits |->
               CHOOSE k \in 0..9 : <<"0","1","2","3","4","5","6","7","8","9">>[k + 1] = d]
Escapes == ("\"" :> "\"") @@ ("\\" :> "\\") @@ ("/" :> "/") @@
           ("n" :> "\n") @@ ("t" :> "\t") @@ ("r" :> "\r")

Fail == [ok |-> FALSE, val |-> None, next |-> 0]
Ok(v, i) == [ok |-> TRUE, val |-> v, next |-> i]

\* first position >= i that holds no JSON whitespace
RECURSIVE SkipWs(_, _)
SkipWs(s, i) == IF CharAt(s, i) \in JsonWs THEN SkipWs(s, i + 1) ELSE i

\* number of consecutive backslashes that end at position j, not reaching
\* below position lo
RECURSIVE BackslashRun(_, _, _)
BackslashRun(s, j, lo) ==
  IF j >= lo /\ CharAt(s, j) = "\\" THEN 1 + BackslashRun(s, j - 1, lo) ELSE 0

\* position of the first backslash of body at or after k, 0 if there is none
RECURSIVE NextBackslash(_, _)
NextBackslash(body, k) ==
  IF k > Len(body) THEN 0
  ELSE IF CharAt(body, k) = "\\" THEN k
  ELSE NextBackslash(body, k + 1)

\* text of a string body with its escapes replaced; ok = FALSE on a
\* backslash that starts no known escape
RECURSIVE Unescape(_), UnescapeAt(_, _), UnescapeRest(_, _, _)
Unescape(body) == UnescapeAt(body, NextBackslash(body, 1))

UnescapeAt(body, k) ==
  IF k = 0 THEN [ok |-> TRUE, text |-> body]
  ELSE IF CharAt(body, k + 1) \in DOMAIN Escapes
       THEN UnescapeRest(body, k, Unescape(Tail_(body, k + 2)))
  ELSE [ok |-> FALSE, text |-> ""]

UnescapeRest(body, k, rest) ==
  IF rest.ok
  THEN [ok |-> TRUE,
        text |-> SubSeq(body, 1, k - 1) \o Escapes[CharAt(body, k + 1)] \o rest.text]
  ELSE [ok |-> FALSE, text |-> ""]

\* position of the first quote at or after j that no backslash escapes (the
\* body starts at lo), 0 if there is none
RECURSIVE ClosingQuote(_, _, _)
ClosingQuote(s, j, lo) ==
  IF j > Len(s) THEN 0
  ELSE IF CharAt(s, j) = "\"" /\ BackslashRun(s, j - 1, lo) % 2 = 0 THEN j
  ELSE ClosingQuote(s, j + 1, lo)

StringValue(u, next) == IF u.ok THEN Ok(PyStr(u.text), next) ELSE Fail

StringBody(body, next) ==
  IF \E j \in 1..Len(body) : CharAt(body, j) \in {"\n", "\t", "\r"}
  THEN Fail                                                  \* raw control character
  ELSE StringValue(Unescape(body), next)

StringTo(s, i, close) ==
  IF close = 0 THEN Fail                                     \* unterminated
  ELSE StringBody(SubSeq(s, i, close - 1), close + 1)

\* a string literal whose body starts at position i (after the opening
\* quote): the body runs to the first quote that no backslash escapes
ScanString(s, i) == StringTo(s, i, ClosingQuote(s, i, i))

\* digits of an integer literal; i is the position of the next digit
RECURSIVE ScanDigits(_, _, _)
ScanDigits(s, i, acc) ==
  IF CharAt(s, i) \in Digits
  THEN ScanDigits(s, i + 1, 10 * acc + DigitVal[CharAt(s, i)])
  ELSE Ok(PyInt(acc), i)

Negated(r) == IF r.ok THEN Ok(PyInt(0 - r.val.n), r.next) ELSE r

\* (0|[1-9][0-9]*)
ScanUnsigned(s, j) ==
  IF CharAt(s, j) = "0" THEN Ok(PyInt(0), j + 1)
  ELSE IF CharAt(s, j) \in Digits THEN ScanDigits(s, j, 0)
  ELSE Fail

\* -?(0|[1-9][0-9]*)
ScanNumber(s, i) ==
  IF CharAt(s, i) = "-" THEN Negated(ScanUnsigned(s, i + 1)) ELSE ScanUnsigned(s, i)

LitAt(s, i, lit) == i + Len(lit) - 1 <= Len(s) /\ SubSeq(s, i, i + Len(lit) - 1) = lit

EmptyDict == [k \in {} |-> None]
Put(d, k, v) == [x \in DOMAIN d \cup {k} |-> IF x = k THEN v ELSE d[x]]   \* later key wins

FailObj == [ok |-> FALSE, obj |-> EmptyDict, next |-> 0]

RECURSIVE ParseValue(_, _), ParseObject(_, _), ParseMembers(_, _, _),
          AfterKey(_, _, _), AfterColon(_, _, _, _), AfterMember(_, _, _, _),
          NextMember(_, _, _), ParseArray(_, _), ParseElements(_, _, _),
          AfterElement(_, _, _), NextElement(_, _, _)

NestedDict(r) == IF r.ok THEN Ok(PyDict(Cardinality(DOMAIN r.obj)), r.next) ELSE Fail

\* a value starting at position i
ParseValue(s, i) ==
  CASE CharAt(s, i) = "\"" -> ScanString(s, i + 1)
    [] CharAt(s, i) = "{"  -> NestedDict(ParseObject(s, i))
    [] CharAt(s, i) = "["  -> ParseArray(s, i)
    [] CharAt(s, i) \in Digits \cup {"-"} -> ScanNumber(s, i)
    [] LitAt(s, i, "true")  -> Ok(PyBool(TRUE), i + 4)
    [] LitAt(s, i, "false") -> Ok(PyBool(FALSE), i + 5)
    [] LitAt(s, i, "null")  -> Ok(None, i + 4)
    [] OTHER -> Fail

\* an object whose '{' is at position i
ParseObject(s, i) == NextMember(s, SkipWs(s, i + 1), EmptyDict)

\* after '{': '}' closes the empty object, else the first member follows
NextMember(s, j, acc) ==
  IF CharAt(s, j) = "}" THEN [ok |-> TRUE, obj |-> acc, next |-> j + 1]
  ELSE ParseMembers(s, j, acc)

\* "key" : value , ... }   with the next key's quote expected at position j
ParseMembers(s, j, acc) ==
  IF CharAt(s, j) = "\"" THEN AfterKey(s, acc, ScanString(s, j + 1)) ELSE FailObj

AfterKey(s, acc, key) ==
  IF key.ok THEN AfterColon(s, acc, key.val.s, SkipWs(s, key.next)) ELSE FailObj

AfterColon(s, acc, k, c) ==
  IF CharAt(s, c) = ":" THEN AfterMember(s, acc, k, ParseValue(s, SkipWs(s, c + 1)))
  ELSE FailObj

AfterMember(s, acc, k, v) ==
  IF v.ok
  THEN (LET m == SkipWs(s, v.next)
        IN  IF CharAt(s, m) = "}"
            THEN [ok |-> TRUE, obj |-> Put(acc, k, v.val), next |-> m + 1]
            ELSE IF CharAt(s, m) = ","
                 THEN ParseMembers(s, SkipWs(s, m + 1), Put(acc, k, v.val))
            ELSE FailObj)
  ELSE FailObj

\* an array whose '[' is at position i
ParseArray(s, i) == NextElement(s, SkipWs(s, i + 1), 0)

NextElement(s, j, cnt) ==
  IF CharAt(s, j) = "]" THEN Ok(PyList(cnt), j + 1) ELSE ParseElements(s, j, cnt)

ParseElements(s, j, cnt) == AfterElement(s, cnt, ParseValue(s, j))

AfterElement(s, cnt, v) ==
  IF v.ok
  THEN (LET m == SkipWs(s, v.next)
        IN  IF CharAt(s, m) = "]" THEN Ok(PyList(cnt + 1), m + 1)
            ELSE IF CharAt(s, m) = "," THEN ParseElements(s, SkipWs(s, m + 1), cnt + 1)
            ELSE Fail)
  ELSE Fail

\* the document must end after the object (whitespace aside)
WholeDocument(s, r) ==
  IF r.ok /\ SkipWs(s, r.next) > Len(s) THEN [ok |-> TRUE, obj |-> r.obj]
  ELSE [ok |-> FALSE, obj |-> EmptyDict]

\* json.loads(s) for a payload that starts with '{': the decoded dict, or
\* ok = FALSE where json.loads raises
JsonLoads(s) ==
  IF CharAt(s, SkipWs(s, 1)) = "{" THEN WholeDocument(s, ParseObject(s, SkipWs(s, 1)))
  ELSE [ok |-> FALSE, obj |-> EmptyDict]

\* dict.get(key, default)
Get(d, k, default) == IF k \in DOMAIN d THEN d[k] ELSE default

(***************************************************************************)
(* parse_log_line                                                          *)
(***************************************************************************)

\* marks a key that the result dict does not have ('caller')
Absent == [t |-> "absent", s |-> "", n |-> 0]

\* faulty variant of PlainLevel: looks for "warn" first (C8 fails on it)
PlainLevelWarnFirst(log_content) ==
  IF Contains(Lower(log_content), "warn") THEN PyStr("warn")
  ELSE IF Contains(Lower(log_content), "error") THEN PyStr("error")
  ELSE None

\* level guessed from a plain-text payload; None when neither word occurs
PlainLevel(log_content) ==
  IF Contains(Lower(log_content), "error") THEN PyStr("error")
  ELSE IF Contains(Lower(log_content), "warn") THEN PyStr("warn")
  ELSE None

\* faulty variant of JsonFields: reads the key 'message' (C6 fails on it)
JsonFieldsMessageKey(result, log_data) ==
  [result EXCEPT !.level     = Get(log_data, "level", PyStr("info")),
                 !.message   = Get(log_data, "message", PyStr("")),
                 !.timestamp = Get(log_data, "ts", PyInt(0)),
                 !.error     = Get(log_data, "error", PyStr("")),
                 !.caller    = Get(log_data, "caller", Absent)]

\* the fields taken from a decoded structured payload
JsonFields(result, log_data) ==
  [result EXCEPT !.level     = Get(log_data, "level", PyStr("info")),
                 !.message   = Get(log_data, "msg", PyStr("")),
                 !.timestamp = Get(log_data, "ts", PyInt(0)),
                 !.error     = Get(log_data, "error", PyStr("")),
                 !.caller    = Get(log_data, "caller", Absent)]

\* the except branch: the payload did not decode
JsonFallback(result, log_content) ==
  [result EXCEPT !.message = PyStr(log_content)]

\* the else branch: plain text payload
PlainFields(result, log_content) ==
  [result EXCEPT !.message = PyStr(log_content),
                 !.level   = PlainLevel(log_content)]

\* result, as initialised
EmptyResult(line) ==
  [service |-> None, timestamp |-> None, level |-> None, message |-> None,
   error |-> None, caller |-> Absent, raw |-> Strip(line)]

\* try: log_data = json.loads(log_content) ... except: ...
FromJson(result, log_content, decoded) ==
  IF decoded.ok THEN JsonFields(result, decoded.obj)
  ELSE JsonFallback(result, log_content)

\* if log_content.startswith('{'): ... else: ...
FromContent(result, log_content) ==
  IF StartsWith(log_content, "{")
  THEN FromJson(result, log_content, JsonLoads(log_content))
  ELSE PlainFields(result, log_content)

\* a line without the delimiter taken as a plain payload of no service
FromMatchWholeLine(result, match) ==
  IF ~match.matched THEN PlainFields(result, result.raw)
  ELSE FromContent([result EXCEPT !.service = PyStr(match.service)], match.log_content)

\* if not match: return result; otherwise the service and the payload
FromMatch(result, match) ==
  IF ~match.matched THEN result
  ELSE FromContent([result EXCEPT !.service = PyStr(match.service)], match.log_content)

parse_log_line(line) == FromMatch(EmptyResult(line), ReMatch(line))

(***************************************************************************)
(* analyze_logs: the body of  for line in logs                             *)
(***************************************************************************)

\* the Python expression  v or 'd'
OrDefault(v, d) == IF Truthy(v) THEN v ELSE PyStr(d)

\* faulty variant of ListAppend: inserts at the front (C10 fails on it)
ListPrepend(list, entry) == <<entry>> \o list

\* list.append
ListAppend(list, entry) == Append(list, entry)

\* analysis['services'][service] += 1 on a defaultdict(int); the dict is
\* kept as the sequence of its items in insertion order
RECURSIVE Increment(_, _)
Increment(services, name) ==
  IF services = <<>> THEN <<[name |-> name, count |-> 1]>>
  ELSE IF Head(services).name = name
       THEN <<[name |-> name, count |-> Head(services).count + 1]>> \o Tail(services)
  ELSE <<Head(services)>> \o Increment(Tail(services), name)

\* faulty variant of CountService: counts without the test (C5 fails on it)
CountServiceAlways(services, service) ==
  Increment(services, IF service.t = "str" THEN service.s ELSE "None")

\* if parsed['service']: analysis['services'][parsed['service']] += 1
CountService(services, service) ==
  IF Truthy(service) THEN Increment(services, service.s) ELSE services

\* parsed.get('caller', '')
CallerOf(parsed) == IF parsed.caller = Absent THEN PyStr("") ELSE parsed.caller

\* faulty variant of RouteLevel: the chain ends in else, so every other level
\* lands in info (C4 fails on it)
RouteLevelElseInfo(a, level, parsed, message, error) ==
  CASE level = "error" ->
         [a EXCEPT !.errors = ListAppend(@,
            [service |-> parsed.service, message |-> message, error |-> error,
             caller |-> CallerOf(parsed), raw |-> parsed.raw])]
    [] level = "warn" ->
         [a EXCEPT !.warnings = ListAppend(@,
            [service |-> parsed.service, message |-> message])]
    [] level = "fatal" ->
         [a EXCEPT !.fatal = ListAppend(@,
            [service |-> parsed.service, message |-> message, error |-> error,
             raw |-> parsed.raw])]
    [] OTHER ->
         [a EXCEPT !.info = ListAppend(@,
            [service |-> parsed.service, message |-> message])]

\* the if/elif chain on the lowercased level
RouteLevel(a, level, parsed, message, error) ==
  CASE level = "error" ->
         [a EXCEPT !.errors = ListAppend(@,
            [service |-> parsed.service, message |-> message, error |-> error,
             caller |-> CallerOf(parsed), raw |-> parsed.raw])]
    [] level = "warn" ->
         [a EXCEPT !.warnings = ListAppend(@,
            [service |-> parsed.service, message |-> message])]
    [] level = "fatal" ->
         [a EXCEPT !.fatal = ListAppend(@,
            [service |-> parsed.service, message |-> message, error |-> error,
             raw |-> parsed.raw])]
    [] level = "info" ->
         [a EXCEPT !.info = ListAppend(@,
            [service |-> parsed.service, message |-> message])]
    [] OTHER -> a

\* faulty variant of ConnectionKeywords: one keyword short (C7 fails on it)
ConnectionKeywordsShort == {"connection refused", "connect() failed"}

ConnectionKeywords == {"connection refused", "connect() failed", "dial error"}

\* faulty variant of IsConnectionError: no .lower() (C2 fails on it)
IsConnectionErrorExactCase(message, error) ==
  LET full_text == message \o " " \o error
  IN  \E keyword \in ConnectionKeywords : Contains(full_text, keyword)

\* full_text = (message + ' ' + error).lower() and the three `in` tests
IsConnectionError(message, error) ==
  LET full_text == Lower(message \o " " \o error)
  IN  \E keyword \in ConnectionKeywords : Contains(full_text, keyword)

StartupKeywords == {"starting", "started", "connected", "initialized"}

IsStartup(message) ==
  \E keyword \in StartupKeywords : Contains(Lower(message), keyword)

\* faulty variant of IsHealthCheck: only the literal '/health' (C9 fails on it)
IsHealthCheckPathOnly(message) == Contains(message, "/health")

\* 'health' in message.lower() or '/health' in message
IsHealthCheck(message) ==
  Contains(Lower(message), "health") \/ Contains(message, "/health")

\* '200' if 'status":200' in line else 'unknown'
HealthStatus(line) == IF Contains(line, "status\":200") THEN "200" ELSE "unknown"

\* the three heuristic buckets, for a record whose message and error are str
Heuristics(a, line, parsed, message, error) ==
  LET a1 == IF IsConnectionError(message.s, error.s)
            THEN [a EXCEPT !.connection_errors = ListAppend(@,
                    [service |-> parsed.service, message |-> message,
                     error |-> error, raw |-> parsed.raw])]
            ELSE a
      a2 == IF IsStartup(message.s)
            THEN [a1 EXCEPT !.startup_sequence = ListAppend(@,
                    [service |-> parsed.service, message |-> message,
                     timestamp |-> parsed.timestamp])]
            ELSE a1
  IN  IF IsHealthCheck(message.s)
      THEN [a2 EXCEPT !.health_checks = ListAppend(@,
              [service |-> parsed.service, message |-> message,
               status |-> HealthStatus(line)])]
      ELSE a2

\* The statements after the level chain, for a record already routed.
\* raised = TRUE where message + ' ' + error raises TypeError because an
\* operand is not a str.
AfterRoute(routed, line, parsed, message, error) ==
  IF message.t # "str" \/ error.t # "str"
  THEN [analysis |-> routed, raised |-> TRUE]
  ELSE [analysis |-> Heuristics(routed, line, parsed, message, error),
        raised |-> FALSE]

\* The statements after the service counter.  raised = TRUE where .lower()
\* raises AttributeError because the level is not a str.
AfterCount(counted, line, parsed, lvl, message, error) ==
  IF lvl.t # "str" THEN [analysis |-> counted, raised |-> TRUE]
  ELSE AfterRoute(RouteLevel(counted, Lower(lvl.s), parsed, message, error),
                  line, parsed, message, error)

\* a non-blank line, parsed
Classify(a, line, parsed) ==
  AfterCount([a EXCEPT !.services = CountService(@, parsed.service)],
             line, parsed,
             OrDefault(parsed.level, "info"),
             OrDefault(parsed.message, ""),
             OrDefault(parsed.error, ""))

\* One iteration.  Where an exception is raised the statements before it
\* have already changed the analysis.
LoopBody(a, line) ==
  IF Strip(line) = "" THEN [analysis |-> a, raised |-> FALSE]
  ELSE Classify(a, line, parse_log_line(line))

EmptyAnalysis ==
  [services |-> <<>>, errors |-> <<>>, warnings |-> <<>>, info |-> <<>>,
   fatal |-> <<>>, connection_errors |-> <<>>, startup_sequence |-> <<>>,
   health_checks |-> <<>>, service_status |-> <<>>]

(***************************************************************************)
(* print_analysis: the report as the sequence of the lines it prints.      *)
(* A printed line is [section, kind, text, n]; rulers and blank lines are  *)
(* left out.                                                               *)
(***************************************************************************)

Printed(section, kind, text, n) ==
  [section |-> section, kind |-> kind, text |-> text, n |-> n]

\* str(v) as an f-string shows it: the text of a str, 'None', or the type of
\* any other value
Show(v) == CASE v.t = "str"  -> v.s
             [] v.t = "None" -> "None"
             [] OTHER        -> "<" \o v.t \o ">"

\* s[:k]
Prefix(s, k) == SubSeq(s, 1, IF Len(s) < k THEN Len(s) ELSE k)

\* seq[-k:]
LastK(seq, k) == SubSeq(seq, IF Len(seq) > k THEN Len(seq) - k + 1 ELSE 1, Len(seq))

\* flatten a sequence of sequences
RECURSIVE Concat(_)
Concat(seqs) == IF seqs = <<>> THEN <<>> ELSE Head(seqs) \o Concat(Tail(seqs))

\* sorted(items, key=count, reverse=True): stable, so equal counts keep
\* their insertion order
RECURSIVE SortByCount(_)
SortByCount(items) ==
  IF items = <<>> THEN <<>>
  ELSE LET top == CHOOSE i \in 1..Len(items) :
                    /\ \A j \in 1..Len(items) : items[j].count <= items[i].count
                    /\ \A j \in 1..(i - 1) : items[j].count < items[i].count
       IN  <<items[top]>> \o
           SortByCount(SubSeq(items, 1, top - 1) \o SubSeq(items, top + 1, Len(items)))

\* keys of a defaultdict(list) filled from entries: services in order of
\* first appearance
RECURSIVE GroupKeys(_)
GroupKeys(entries) ==
  IF entries = <<>> THEN <<>>
  ELSE LET init == GroupKeys(SubSeq(entries, 1, Len(entries) - 1))
           key  == entries[Len(entries)].service
       IN  IF \E i \in 1..Len(init) : init[i] = key THEN init ELSE Append(init, key)

InGroup(entries, key) == SelectSeq(entries, LAMBDA e : e.service = key)

PrintServices(a) ==
  LET sorted == SortByCount(a.services)
  IN  <<Printed("services", "heading", "", 0)>> \o
      [i \in 1..Len(sorted) |->
         Printed("services", "entry", sorted[i].name, sorted[i].count)]

PrintErrors(a) ==
  <<Printed("errors", "heading", "", 0)>> \o
  IF a.errors # <<>>
  THEN Concat([i \in 1..Len(a.errors) |->
         LET err == a.errors[i]
         IN  <<Printed("errors", "entry",
                       "[" \o Show(err.service) \o "] " \o Show(err.message), 0)>> \o
             (IF Truthy(err.error)
              THEN <<Printed("errors", "error", Show(err.error), 0)>> ELSE <<>>) \o
             (IF Truthy(err.caller)
              THEN <<Printed("errors", "caller", Show(err.caller), 0)>> ELSE <<>>)])
  ELSE <<Printed("errors", "placeholder", "", 0)>>

WarningsLimit == 10

PrintWarnings(a) ==
  <<Printed("warnings", "heading", "", 0)>> \o
  IF a.warnings # <<>>
  THEN LET shown == Prefix(a.warnings, WarningsLimit)
       IN  [i \in 1..Len(shown) |->
              Printed("warnings", "entry",
                      "[" \o Show(shown[i].service) \o "] " \o Show(shown[i].message), 0)]
  ELSE <<Printed("warnings", "placeholder", "", 0)>>

PrintFatal(a) ==
  <<Printed("fatal", "heading", "", 0)>> \o
  IF a.fatal # <<>>
  THEN Concat([i \in 1..Len(a.fatal) |->
         LET f == a.fatal[i]
         IN  <<Printed("fatal", "entry", "[" \o Show(f.service) \o "]", 0),
               Printed("fatal", "message", Show(f.message), 0)>> \o
             (IF Truthy(f.error)
              THEN <<Printed("fatal", "error", Show(f.error), 0)>> ELSE <<>>)])
  ELSE <<Printed("fatal", "placeholder", "", 0)>>

MessageWidth == 100
ErrorWidth == 150

\* the label chain with the PostgreSQL test ahead of the Fabric Peer test
ConnectionLabelPostgresFirst(raw) ==
  IF Contains(raw, "172.21.0.") \/ Contains(raw, "7051") \/ Contains(raw, "5432")
  THEN IF Contains(raw, "5432") THEN "PostgreSQL (port 5432)"
       ELSE IF Contains(raw, "7051") THEN "Fabric Peer (port 7051)"
       ELSE IF Contains(raw, "8080") THEN "API Gateway (port 8080)"
       ELSE ""
  ELSE ""

\* the dependency named for one connection error, "" when none is printed
ConnectionLabel(raw) ==
  IF Contains(raw, "172.21.0.") \/ Contains(raw, "7051") \/ Contains(raw, "5432")
  THEN IF Contains(raw, "7051") THEN "Fabric Peer (port 7051)"
       ELSE IF Contains(raw, "5432") THEN "PostgreSQL (port 5432)"
       ELSE IF Contains(raw, "8080") THEN "API Gateway (port 8080)"
       ELSE ""
  ELSE ""

PrintConnectionErrors(a) ==
  <<Printed("connection_errors", "heading", "", 0)>> \o
  IF a.connection_errors # <<>>
  THEN Concat([i \in 1..Len(a.connection_errors) |->
         LET c == a.connection_errors[i]
         IN  <<Printed("connection_errors", "entry", Show(c.service), i)>> \o
             (IF Truthy(c.message)
              THEN <<Printed("connection_errors", "message",
                             Prefix(c.message.s, MessageWidth) \o "...", i)>>
              ELSE <<>>) \o
             (IF Truthy(c.error)
              THEN <<Printed("connection_errors", "error",
                             Prefix(c.error.s, ErrorWidth) \o "...", i)>>
              ELSE <<>>) \o
             (IF ConnectionLabel(c.raw) # ""
              THEN <<Printed("connection_errors", "label", ConnectionLabel(c.raw), i)>>
              ELSE <<>>)])
  ELSE <<Printed("connection_errors", "placeholder", "", 0)>>

StartupShown == 5

PrintStartup(a) ==
  LET keys == GroupKeys(a.startup_sequence)
  IN  <<Printed("startup_sequence", "heading", "", 0)>> \o
      Concat([k \in 1..Len(keys) |->
         LET messages == LastK(InGroup(a.startup_sequence, keys[k]), StartupShown)
         IN  <<Printed("startup_sequence", "group", Show(keys[k]), 0)>> \o
             [i \in 1..Len(messages) |->
                Printed("startup_sequence", "entry", Show(messages[i].message), 0)]])

\* the health section written the way the startup section is: no else branch
PrintHealthNoPlaceholder(a) ==
  LET keys == GroupKeys(a.health_checks)
  IN  <<Printed("health_checks", "heading", "", 0)>> \o
      [k \in 1..Len(keys) |->
         Printed("health_checks", "group", Show(keys[k]), 0)]

PrintHealth(a) ==
  <<Printed("health_checks", "heading", "", 0)>> \o
  IF a.health_checks # <<>>
  THEN LET keys == GroupKeys(a.health_checks)
       IN  [k \in 1..Len(keys) |->
              LET statuses == InGroup(a.health_checks, keys[k])
                  success  == Len(SelectSeq(statuses, LAMBDA h : h.status = "200"))
              IN  Printed("health_checks", "group",
                          Show(keys[k]) \o " of " \o ToString(Len(statuses)), success)]
  ELSE <<Printed("health_checks", "placeholder", "", 0)>>

PrintSummary(a) ==
  <<Printed("summary", "heading", "", 0),
    Printed("summary", "services", "", Len(a.services)),
    Printed("summary", "errors", "", Len(a.errors)),
    Printed("summary", "warnings", "", Len(a.warnings)),
    Printed("summary", "fatal", "", Len(a.fatal)),
    Printed("summary", "connection_errors", "", Len(a.connection_errors))>>

print_analysis(a) ==
  PrintServices(a) \o PrintErrors(a) \o PrintWarnings(a) \o PrintFatal(a) \o
  PrintConnectionErrors(a) \o PrintStartup(a) \o PrintHealth(a) \o PrintSummary(a)

(***************************************************************************)
(* The input.  analyze_logs takes any list of strings; the lines below     *)
(* cover each shape a line can have: blank, no delimiter match, plain      *)
(* payload, payload that starts with '{' and does not decode, and          *)
(* structured payloads with str and non-str field values.                  *)
(***************************************************************************)

MaxLines == 2

BlankLines == {"", "  \n"}

NoMatchLines ==
  {"connection refused",
   " svc | error health started",
   "svc|dial error"}

PlainLines ==
  {"couchdb0 | [notice] GET /_up 200 ok 2",
   "nginx | [error] connect() failed (111: Connection refused) upstream: 172.21.0.15:8080/health",
   "db | WARNING: starting, no Error",
   "db | Warn: initialized",
   "web | GET /HEALTH status\":200",
   "svc | ok\n"}

UndecodableLines ==
  {"svc | {error: dial error",
   "svc | {\"level\":\"warn\",\"msg\":\"health\"",
   "svc | {not json}"}

StructuredLines ==
  {"api-1 | {\"level\":\"fatal\",\"ts\":1,\"caller\":\"x.go:1\",\"msg\":\"Failed to connect to database\",\"error\":\"dial error (connection refused)\"}",
   "api-1 | {\"level\":\"info\",\"msg\":\"HTTP request\",\"path\":\"/health\",\"status\":200}",
   "api-1 | {\"level\":\"INFO\",\"msg\":\"Health OK\",\"status\":200}",
   "api-1 | {\"level\":\"debug\",\"msg\":\"Connection Refused by peer 7051\"}",
   "api-2 | {\"level\":\"Warn\",\"msg\":\"connection\",\"error\":\"refused\"}",
   "api-2 | {\"msg\":\"server started\",\"detail\":\"connection refused\"}",
   "api-2 | {\"level\":null,\"msg\":null,\"error\":0}",
   "api-2 | {\"level\":\"\",\"msg\":\"initialized\",\"error\":false}",
   "svc | {}"}

\* structured payloads whose level, msg or error is a value that is not a str
NonStrLines ==
  {"svc | {\"level\":5,\"msg\":\"connection refused\"}",
   "svc | {\"level\":\"error\",\"msg\":7}",
   "svc | {\"msg\":\"health\",\"error\":[1]}"}

\* connection errors whose raw line names a port or the container subnet
PortLines ==
  {"pg | dial error 5432",
   "gw | connection refused 10.0.0.1:8080",
   "gw | connection refused 172.21.0.9",
   "api | dial error 5432 via 7051"}

\* json.dumps of a str, without the quotes
RECURSIVE JsonEscape(_)
JsonEscape(text) ==
  IF text = "" THEN ""
  ELSE LET c == CharAt(text, 1)
       IN  (CASE c = "\"" -> "\\\""
              [] c = "\\" -> "\\\\"
              [] c = "\n" -> "\\n"
              [] OTHER    -> c) \o JsonEscape(Tail_(text, 2))

\* the line  svc | {"level":"error","msg":"m","error":"e"}
ErrorLine(svc, m, e) ==
  svc \o " | {\"level\":\"error\",\"msg\":\"" \o JsonEscape(m) \o
  "\",\"error\":\"" \o JsonEscape(e) \o "\"}"

Tokens == {"svc", "a|b"}
Messages == {"", "say \"hi\"", "db connected"}
ErrorTexts == {"", "dial\\error"}

ErrorLines == {ErrorLine(svc, m, e) : svc \in Tokens, m \in Messages, e \in ErrorTexts}

Lines == BlankLines \cup NoMatchLines \cup PlainLines \cup UndecodableLines \cup
         StructuredLines \cup NonStrLines \cup ErrorLines \cup PortLines

(***************************************************************************)
(* The run: main calls analyze_logs(logs), then print_analysis(analysis).  *)
(***************************************************************************)

VARIABLES
  pc,        \* "analyze": in the for loop; "raised": an exception left
             \* analyze_logs; "returned": analyze_logs returned the analysis;
             \* "printed": print_analysis has printed the report
  logs,      \* the lines the loop has taken from its input so far
  analysis,  \* the dict analyze_logs builds
  output     \* what print_analysis has printed

vars == <<pc, logs, analysis, output>>

Init ==
  /\ pc = "analyze"
  /\ logs = <<>>
  /\ analysis = EmptyAnalysis
  /\ output = <<>>

\* one iteration of  for line in logs
Iterate ==
  /\ pc = "analyze"
  /\ Len(logs) < MaxLines
  /\ \E line \in Lines :
       \E r \in {LoopBody(analysis, line)} :
         /\ logs' = Append(logs, line)
         /\ analysis' = r.analysis
         /\ pc' = IF r.raised THEN "raised" ELSE "analyze"
  /\ UNCHANGED output

\* the input is exhausted: return analysis
Return ==
  /\ pc = "analyze"
  /\ pc' = "returned"
  /\ UNCHANGED <<logs, analysis, output>>

PrintAnalysis ==
  /\ pc = "returned"
  /\ output' = print_analysis(analysis)
  /\ pc' = "printed"
  /\ UNCHANGED <<logs, analysis>>

Next == Iterate \/ Return \/ PrintAnalysis

Spec == Init /\ [][Next]_vars

(***************************************************************************)
(* Vocabulary of the properties                                            *)
(***************************************************************************)

NonBlank(line) == Strip(line) # ""

\* t occurs in s in any letter case
ContainsCI(s, t) == Contains(Lower(s), Lower(t))

\* the step is an iteration of the loop, over the line LineTaken
Iterated == logs' # logs
LineTaken == logs'[Len(logs')]

\* the iteration ran to its end (no exception left the loop body)
Completed == pc' = "analyze"

LevelBuckets == {"errors", "warnings", "fatal", "info"}
HeuristicBuckets == {"connection_errors", "startup_sequence", "health_checks"}
Buckets == LevelBuckets \cup HeuristicBuckets

IsPrefix(p, q) == Len(p) <= Len(q) /\ SubSeq(q, 1, Len(p)) = p

\* the step appended exactly one entry to bucket b / left it alone
Grew(b) == /\ Len(analysis'[b]) = Len(analysis[b]) + 1
           /\ IsPrefix(analysis[b], analysis'[b])
Same(b) == analysis'[b] = analysis[b]
Appended(b) == analysis'[b][Len(analysis'[b])]

\* the text of a field as the classifier uses it: '' for an unset or empty one
TextOf(v) == IF v.t = "str" THEN v.s ELSE ""

\* level, msg and error are each a str or an empty value (None, '', 0, false, [], {})
TextFields(p) ==
  \A v \in {p.level, p.message, p.error} : v.t = "str" \/ ~Truthy(v)

(***************************************************************************)
(* C1  (stated as claimed; the code violates it)                           *)
(* Whatever lines are given, including structured payloads with values of  *)
(* any type in level, msg and error, no exception leaves analyze_logs.     *)
(***************************************************************************)
C1_NeverRaises == pc # "raised"


C3_FallbackIsPlainText ==
  \A i \in 1..Len(logs) :
    \A m \in {ReMatch(logs[i])} :
      (m.matched /\ StartsWith(m.log_content, "{") /\ ~JsonLoads(m.log_content).ok)
      => /\ parse_log_line(logs[i]).message = PyStr(m.log_content)
         /\ parse_log_line(logs[i]).level =
              (IF ContainsCI(m.log_content, "error") THEN PyStr("error")
               ELSE IF ContainsCI(m.log_content, "warn") THEN PyStr("warn")
               ELSE None)

(***************************************************************************)
(* C4                                                                      *)
(* Each non-blank line is appended to exactly one of errors, warnings,     *)
(* fatal, info when its level -- lowercased, an unset or empty level       *)
(* counting as "info" -- is error, warn, fatal or info, and to none of the *)
(* four for any other level; a blank line is appended to none.  Hence the  *)
(* four buckets together never hold more entries than the non-blank lines  *)
(* taken so far.                                                           *)
(***************************************************************************)
ClaimedLevel(p) ==
  IF ~Truthy(p.level) THEN "info"
  ELSE IF p.level.t = "str" THEN Lower(p.level.s)
  ELSE "(not a str)"

BucketFor(level) ==
  CASE level = "error" -> "errors"
    [] level = "warn"  -> "warnings"
    [] level = "fatal" -> "fatal"
    [] level = "info"  -> "info"
    [] OTHER           -> "(none)"

LevelTotal ==
  Len(analysis.errors) + Len(analysis.warnings) + Len(analysis.fatal) + Len(analysis.info)

NonBlankCount == Cardinality({i \in 1..Len(logs) : NonBlank(logs[i])})

C4_OneLevelBucket ==
  /\ [](LevelTotal <= NonBlankCount)
  /\ [][Iterated =>
          \A target \in {BucketFor(ClaimedLevel(parse_log_line(LineTaken)))} :
            \A b \in LevelBuckets :
              IF NonBlank(LineTaken) /\ b = target THEN Grew(b) ELSE Same(b)
     ]_vars

\* two non-blank lines were classified, one with the unrecognized level
\* "debug": only the other one is in a level bucket
C4_Witness ==
  /\ pc = "returned"
  /\ NonBlankCount = 2
  /\ LevelTotal = 1
  /\ \E i \in 1..Len(logs) : parse_log_line(logs[i]).level = PyStr("debug")
  /\ \E i \in 1..Len(logs) : parse_log_line(logs[i]).level = PyStr("INFO")

(***************************************************************************)
(* C5                                                                      *)
(* The per-service counters count the lines that matched the               *)
(* '<token> | <payload>' pattern, each under its own token: a counter is   *)
(* the number of matching lines with that token, the counters sum to the   *)
(* number of non-blank matching lines, and blank lines and lines without   *)
(* a match count nowhere.                                                  *)
(***************************************************************************)
Matches == [i \in 1..Len(logs) |-> ReMatch(logs[i])]

MatchedWith(ms, name) ==
  {i \in 1..Len(logs) : NonBlank(logs[i]) /\ ms[i].matched /\ ms[i].service = name}

Matched(ms) ==
  {i \in 1..Len(logs) : NonBlank(logs[i]) /\ ms[i].matched}

RECURSIVE SumCounts(_)
SumCounts(items) ==
  IF items = <<>> THEN 0 ELSE Head(items).count + SumCounts(Tail(items))

C5_ServiceCounts ==
  \A ms \in {Matches} :
    /\ SumCounts(analysis.services) = Cardinality(Matched(ms))
    /\ \A k \in 1..Len(analysis.services) :
         analysis.services[k].count =
           Cardinality(MatchedWith(ms, analysis.services[k].name))
    /\ \A j, k \in 1..Len(analysis.services) :
         analysis.services[j].name = analysis.services[k].name => j = k

\* a line without a match and a matching line were both classified: one
\* counter, with count 1
C5_Witness ==
  /\ pc = "returned"
  /\ NonBlankCount = 2
  /\ Cardinality(Matched(Matches)) = 1
  /\ Len(analysis.services) = 1
  /\ analysis.services[1].count = 1

(***************************************************************************)
(* C6                                                                      *)
(* For every token svc and all texts m and e, the line                     *)
(*   svc | {"level":"error","msg":"m","error":"e"}                         *)
(* (m and e written as JSON strings) appends to errors one entry with      *)
(* service svc, message m and error e, and leaves warnings, fatal and info *)
(* as they were.                                                           *)
(***************************************************************************)
C6_ErrorLine ==
  [][Iterated =>
       \A svc \in Tokens, m \in Messages, e \in ErrorTexts :
         LineTaken = ErrorLine(svc, m, e) =>
           /\ Grew("errors")
           /\ Appended("errors").service = PyStr(svc)
           /\ Appended("errors").message = PyStr(m)
           /\ Appended("errors").error = PyStr(e)
           /\ Same("warnings") /\ Same("fatal") /\ Same("info")
  ]_vars

\* an error line whose message and error both need JSON escapes is in errors
C6_Witness ==
  /\ Len(analysis.errors) = 1
  /\ analysis.errors[1].service = PyStr("a|b")
  /\ analysis.errors[1].message = PyStr("say \"hi\"")
  /\ analysis.errors[1].error = PyStr("dial\\error")
  /\ analysis.warnings = <<>> /\ analysis.fatal = <<>> /\ analysis.info = <<>>
  /\ logs = <<ErrorLine("a|b", "say \"hi\"", "dial\\error")>>


PlainLevelName(payload) ==
  IF ContainsCI(payload, "error") THEN "error"
  ELSE IF ContainsCI(payload, "warn") THEN "warn"
  ELSE "unset"

C8_PlainText ==
  [][Iterated =>
       \A m \in {ReMatch(LineTaken)} :
         (m.matched /\ ~StartsWith(m.log_content, "{")) =>
           \A p \in {parse_log_line(LineTaken)}, level \in {PlainLevelName(m.log_content)} :
             \A target \in {CASE level = "error" -> "errors"
                              [] level = "warn"  -> "warnings"
                              [] OTHER           -> "info"} :
               /\ p.message = PyStr(m.log_content)
               /\ p.level = (IF level = "unset" THEN None ELSE PyStr(level))
               /\ Completed
               /\ \A b \in LevelBuckets : IF b = target THEN Grew(b) ELSE Same(b)
               /\ Appended(target).service = PyStr(m.service)
               /\ Appended(target).message = PyStr(m.log_content)
               /\ Same("health_checks") \/ Grew("health_checks")
               /\ Grew("health_checks") => ContainsCI(m.log_content, "health")
  ]_vars

\* the couchdb line of the scenario is in info and not in health_checks
C8_Witness ==
  /\ pc = "returned"
  /\ logs = <<"couchdb0 | [notice] GET /_up 200 ok 2">>
  /\ analysis.info = <<[service |-> PyStr("couchdb0"),
                        message |-> PyStr("[notice] GET /_up 200 ok 2")]>>
  /\ analysis.health_checks = <<>>
  /\ analysis.errors = <<>> /\ analysis.warnings = <<>> /\ analysis.fatal = <<>>

Contributions == [i \in 1..Len(logs) |-> LoopBody(EmptyAnalysis, logs[i]).analysis]

C10_AppendOnly ==
  /\ [][\A b \in Buckets : IsPrefix(analysis[b], analysis'[b])]_vars
  /\ [](pc = "returned" =>
          \A own \in {Contributions} :
            \A b \in Buckets :
              analysis[b] = Concat([i \in 1..Len(logs) |-> own[i][b]]))

\* two different lines have both left an entry in info and in
\* startup_sequence, in the order they came
C10_Witness ==
  /\ pc = "returned"
  /\ Len(logs) = 2
  /\ Len(analysis.info) = 2
  /\ analysis.info[1] # analysis.info[2]
  /\ Len(analysis.startup_sequence) = 2
  /\ analysis.startup_sequence[1].message = parse_log_line(logs[1]).message
  /\ analysis.startup_sequence[2].message = parse_log_line(logs[2]).message

(***************************************************************************)
(* Vocabulary of the report                                                *)
(***************************************************************************)

\* the input so far is empty or holds blank lines only
OnlyBlankLines == \A i \in 1..Len(logs) : ~NonBlank(logs[i])

\* the lines print_analysis printed in a section, below its heading
Body(section) ==
  SelectSeq(output, LAMBDA l : l.section = section /\ l.kind # "heading")

HasPlaceholder(section) ==
  \E i \in 1..Len(output) : output[i] = Printed(section, "placeholder", "", 0)

GuardedSections == {"errors", "warnings", "fatal", "connection_errors", "health_checks"}
LoopOnlySections == {"services", "startup_sequence"}

(***************************************************************************)
(* C11  (stated as claimed; the code violates it)                          *)
(* For the empty input and for an input of blank lines only, the analysis  *)
(* has no service and every bucket empty, and the report has a placeholder *)
(* line in every one of its seven sections: services, errors, warnings,    *)
(* fatal, connection errors, startup sequence, health checks.              *)
(***************************************************************************)
C11_PlaceholderEverySection ==
  (pc = "printed" /\ OnlyBlankLines) =>
    /\ analysis = EmptyAnalysis
    /\ \A section \in GuardedSections \cup LoopOnlySections : HasPlaceholder(section)

(***************************************************************************)
(* C11  (amended)                                                          *)
(* For the empty input and for an input of blank lines only, the analysis  *)
(* has no service and every bucket empty at every point of the run, and    *)
(* the report has exactly one line, the placeholder, below the heading of  *)
(* each of errors, warnings, fatal, connection errors and health checks,   *)
(* and nothing below the headings of services and startup sequence.        *)
(***************************************************************************)
C11_EmptyInput ==
  OnlyBlankLines =>
    /\ analysis = EmptyAnalysis
    /\ pc # "raised"
    /\ pc = "printed" =>
         /\ \A section \in GuardedSections :
              Body(section) = <<Printed(section, "placeholder", "", 0)>>
         /\ \A section \in LoopOnlySections : Body(section) = <<>>
         /\ \A section \in GuardedSections \cup LoopOnlySections :
              \E i \in 1..Len(output) : output[i] = Printed(section, "heading", "", 0)

\* the report of an input of two blank lines has been printed
C11_Witness ==
  /\ pc = "printed"
  /\ Len(logs) = 2
  /\ OnlyBlankLines
  /\ HasPlaceholder("health_checks")

(***************************************************************************)
(* C12  (stated as claimed; the code violates it)                          *)
(* In the report, every connection error has at most one label line; its   *)
(* raw line decides which: "7051" gives the Fabric Peer label, otherwise   *)
(* "5432" the PostgreSQL label, otherwise "8080" the API Gateway label,    *)
(* and a raw line with none of "172.21.0.", "7051", "5432", "8080" gives   *)
(* no label.                                                               *)
(***************************************************************************)
\* the label lines printed for the i-th connection error
Labels(i) ==
  SelectSeq(output, LAMBDA l : /\ l.section = "connection_errors"
                               /\ l.kind = "label"
                               /\ l.n = i)

LabelLine(text, i) == Printed("connection_errors", "label", text, i)

C12_LabelPerPort ==
  pc = "printed" =>
    \A i \in 1..Len(analysis.connection_errors) :
      \A raw \in {analysis.connection_errors[i].raw}, labels \in {Labels(i)} :
        /\ Len(labels) <= 1
        /\ Contains(raw, "7051") => labels = <<LabelLine("Fabric Peer (port 7051)", i)>>
        /\ (~Contains(raw, "7051") /\ Contains(raw, "5432"))
             => labels = <<LabelLine("PostgreSQL (port 5432)", i)>>
        /\ (~Contains(raw, "7051") /\ ~Contains(raw, "5432") /\ Contains(raw, "8080"))
             => labels = <<LabelLine("API Gateway (port 8080)", i)>>
        /\ (/\ ~Contains(raw, "172.21.0.") /\ ~Contains(raw, "7051")
            /\ ~Contains(raw, "5432") /\ ~Contains(raw, "8080"))
             => labels = <<>>

(***************************************************************************)
(* C12  (amended)                                                          *)
(* In the report, every connection error has at most one label line; its   *)
(* raw line decides which: "7051" gives the Fabric Peer label, otherwise   *)
(* "5432" the PostgreSQL label, otherwise "8080" together with "172.21.0." *)
(* the API Gateway label, and every other raw line, one with "8080" and    *)
(* without "172.21.0." included, gives no label.                           *)
(***************************************************************************)
C12_LabelPerPortOnSubnet ==
  pc = "printed" =>
    \A i \in 1..Len(analysis.connection_errors) :
      \A raw \in {analysis.connection_errors[i].raw}, labels \in {Labels(i)} :
        /\ Len(labels) <= 1
        /\ labels = <<LabelLine("Fabric Peer (port 7051)", i)>>
             <=> Contains(raw, "7051")
        /\ labels = <<LabelLine("PostgreSQL (port 5432)", i)>>
             <=> (~Contains(raw, "7051") /\ Contains(raw, "5432"))
        /\ labels = <<LabelLine("API Gateway (port 8080)", i)>>
             <=> (/\ ~Contains(raw, "7051") /\ ~Contains(raw, "5432")
                  /\ Contains(raw, "8080") /\ Contains(raw, "172.21.0."))

\* two connection errors that both name port 8080 were printed: the first,
\* on the container subnet, with the API Gateway label, the second without
C12_Witness ==
  /\ pc = "printed"
  /\ Len(analysis.connection_errors) = 2
  /\ Contains(analysis.connection_errors[1].raw, "172.21.0.15:8080")
  /\ Labels(1) = <<LabelLine("API Gateway (port 8080)", 1)>>
  /\ Contains(analysis.connection_errors[2].raw, "8080")
  /\ Labels(2) = <<>>

(***************************************************************************)
(* C13                                                                     *)
(* An iteration over a non-blank line that fails the delimiter match       *)
(* completes, appends the entry of no service and empty message to info,   *)
(* and leaves the service counters, service_status and every other bucket  *)
(* as they were; and in every state every entry of connection_errors,      *)
(* startup_sequence and health_checks carries a service token, a non-empty *)
(* str.                                                                    *)
(***************************************************************************)
ServiceSet(entry) == entry.service.t = "str" /\ entry.service.s # ""

C13_NoMatchToInfo ==
  /\ [][(Iterated /\ NonBlank(LineTaken) /\ ~ReMatch(LineTaken).matched) =>
          /\ Completed
          /\ Grew("info")
          /\ Appended("info") = [service |-> None, message |-> PyStr("")]
          /\ \A b \in Buckets \ {"info"} : Same(b)
          /\ analysis'.services = analysis.services
          /\ analysis'.service_status = analysis.service_status
     ]_vars
  /\ [](\A b \in HeuristicBuckets :
          \A k \in 1..Len(analysis[b]) : ServiceSet(analysis[b][k]))

\* the line "connection refused" has no delimiter: it went to info with no
\* service, and the one connection error is the other line's, with its service
C13_Witness ==
  /\ pc = "returned"
  /\ Len(logs) = 2
  /\ logs[1] = "connection refused"
  /\ analysis.info = <<[service |-> None, message |-> PyStr("")]>>
  /\ Len(analysis.services) = 1
  /\ Len(analysis.connection_errors) = 1
  /\ ServiceSet(analysis.connection_errors[1])

=============================================================================
